---------------------------- MODULE Spec2Model ----------------------------
(***************************************************************************)
(* Model of service/PipelineWorkflow.py (uschpc/cryo-pegasus): the         *)
(* construction of the motioncor2 Pegasus workflow by                      *)
(* PipelineWorkflow.submit_workflow / create_workflow.                     *)
(*                                                                         *)
(* File names and paths are sequences of one-character strings, so that    *)
(* str.replace, re.sub, str.split/join, os.path.basename/dirname and the   *)
(* glob pattern are computed character by character as Python does.        *)
(***************************************************************************)
EXTENDS Integers, Sequences, FiniteSets, TLC

\* --------------------------------------------------------------------------
\* Bounds.  random.sample draws 10 files in debug mode and 1000 otherwise
\* (lines 318, 321); the model draws DebugSample and ProdSample files, the
\* same code with smaller counts.
DebugSample == 2
ProdSample == 3

\* cluster_size, lines 154 and 156
ClusterSizeDebug == 5
ClusterSizeProd == 100

\* --------------------------------------------------------------------------
\* String literals of the source, as character sequences
S_x1m1 == <<"x","1",".","m","1",".">>
S_x1m1dm4 == S_x1m1 \o <<"d","m","4">>
S_x1m1mrc == S_x1m1 \o <<"m","r","c">>
S_SuperRes == <<"_","S","u","p","e","r","R","e","s",".">> \o S_x1m1mrc
S_std == <<"_","s","t","d",".">> \o S_x1m1mrc
S_srflipy == <<"_","s","r",".","f","l","i","p","y",".">> \o S_x1m1mrc
S_stdflipy == <<"_","s","t","d",".","f","l","i","p","y",".">> \o S_x1m1mrc
S_dm4 == <<".","d","m","4">>
S_mrc == <<".","m","r","c">>
S_DWmrc == <<"_","D","W",".","m","r","c">>
S_jpg == <<".","j","p","g">>
S_IN == <<"-","I","N">>
S_star == <<".","s","t","a","r">>
S_ctf == <<".","c","t","f">>
S_gctflog == <<"_","g","c","t","f",".","l","o","g">>
S_ctfjpg == <<"_","c","t","f",".","j","p","g">>
S_fileurl == <<"f","i","l","e",":","/","/">>

\* the three extensions create_workflow knows (lines 353-358), and one it
\* does not
E_tiff == <<"t","i","f","f">>
E_mrc == <<"m","r","c">>
E_eer == <<"e","e","r">>
E_tif == <<"t","i","f">>

\* --------------------------------------------------------------------------
\* Python string functions

\* s[i:] and s[:i] (1-based here: Drop removes the first n characters)
Drop(s, n) == SubSeq(s, n + 1, Len(s))
Take(s, n) == SubSeq(s, 1, n)

StartsWith(s, p) == Len(p) <= Len(s) /\ Take(s, Len(p)) = p
EndsWith(s, p) == Len(p) <= Len(s) /\ Drop(s, Len(s) - Len(p)) = p

\* old in s
RECURSIVE Contains(_, _)
Contains(s, old) ==
    IF Len(s) < Len(old) THEN FALSE
    ELSE IF StartsWith(s, old) THEN TRUE
    ELSE Contains(Tail(s), old)

\* s.replace(old, new): every non-overlapping occurrence, left to right
\* (old is never empty in the source)
RECURSIVE Replace(_, _, _)
Replace(s, old, new) ==
    IF Len(s) < Len(old) THEN s
    ELSE IF StartsWith(s, old) THEN new \o Replace(Drop(s, Len(old)), old, new)
    ELSE <<Head(s)>> \o Replace(Tail(s), old, new)

\* position of the last occurrence of character c in s, 0 if none
RECURSIVE LastIndex(_, _)
LastIndex(s, c) ==
    IF s = <<>> THEN 0
    ELSE IF s[Len(s)] = c THEN Len(s)
    ELSE LastIndex(Take(s, Len(s) - 1), c)

\* os.path.basename(path), os.path.dirname(path)
basename(path) == Drop(path, LastIndex(path, "/"))
dirname(path) ==
    LET i == LastIndex(path, "/") IN IF i <= 1 THEN Take(path, i) ELSE Take(path, i - 1)

\* "file://{}".format(path)
FileUrl(path) == S_fileurl \o path

\* --------------------------------------------------------------------------
\* Parameters set by set_params (lines 403-415) and the files on disk

\* basename_prefix and basename_suffix of the run
basename_prefix == <<>>
basename_suffix == <<"f","r","a","c","t","i","o","n","s">>

\* glob pattern "%s*%s.%s" % (prefix, suffix, extension) of lines 313-315,
\* applied to a file name: "*" is any run of characters, the rest is literal
GlobMatch(name, ext) ==
    LET tail == basename_suffix \o <<".">> \o ext
    IN  /\ Len(name) >= Len(basename_prefix) + Len(tail)
        /\ StartsWith(name, basename_prefix)
        /\ EndsWith(name, tail)

\* Listings find_files2 can return for the raw gain-reference pattern
\* (self.rawgainref): nothing, or one file
GainRefPaths == { <<"R","/","f","o","o","_","x","1",".","m","1",".","d","m","4">>,
                  <<"R","/","b","a","r","x","1",".","m","1",".","d","m","4">>,
                  <<"R","/","f","o","o",".","d","m","4">> }
GainRefListings == {<<>>} \cup { <<p>> : p \in GainRefPaths }

\* Listings find_files2 can return for the raw defect-map pattern
\* (self.rawdefectsmap)
DefectMapPaths == { <<"R","/","d",".","d","m","4">>,
                    <<"R","/","d",".","m","r","c">> }
DefectMapListings == {<<>>} \cup { <<p>> : p \in DefectMapPaths }

\* Per-acquisition files that may exist under Images-Disc1/<square>/Data
\* (the directory is abridged to the grid-square name, A or B)
FractionPool == {
    <<"A","/","a","_","f","r","a","c","t","i","o","n","s",".","t","i","f","f">>,
    <<"B","/","a","_","f","r","a","c","t","i","o","n","s",".","t","i","f","f">>,
    <<"A","/","b","_","f","r","a","c","t","i","o","n","s",".","t","i","f","f">>,
    <<"B","/","c","_","f","r","a","c","t","i","o","n","s",".","t","i","f","f">>,
    <<"A","/","x","_","f","r","a","c","t","i","o","n","s",".","m","r","c">>,
    <<"A","/","x","_","f","r","a","c","t","i","o","n","s","_","f","r","a","c","t","i","o","n","s",".","m","r","c">>,
    <<"A","/","e","_","f","r","a","c","t","i","o","n","s",".","e","e","r">>,
    <<"A","/","f","_","f","r","a","c","t","i","o","n","s",".","e","e","r">>,
    <<"A","/","t","_","f","r","a","c","t","i","o","n","s",".","t","i","f">>,
    <<"A","/","u","_","f","r","a","c","t","i","o","n","s",".","t","i","f">> }

Extensions == {E_tiff, E_mrc, E_eer, E_tif}

\* find_files2 for the per-acquisition pattern: the files of the pool whose
\* name matches the glob
Matching(ext) == { p \in FractionPool : GlobMatch(basename(p), ext) }

\* --------------------------------------------------------------------------
\* Names derived for one per-acquisition file (lines 325-343, 374-377, 393)

\* re.sub("_%s.%s$" % (suffix, extension), "", name): the "." of the pattern
\* is the regular expression's any-character
ReSubSuffix(name, ext) ==
    LET L == 1 + Len(basename_suffix) + 1 + Len(ext)
        t == Drop(name, Len(name) - L)
    IN  IF /\ Len(name) >= L
           /\ t[1] = "_"
           /\ SubSeq(t, 2, 1 + Len(basename_suffix)) = basename_suffix
           /\ t[2 + Len(basename_suffix)] # "\n"
           /\ Drop(t, 2 + Len(basename_suffix)) = ext
        THEN Take(name, Len(name) - L)
        ELSE name

\* "_".join(name.split("_")[:-1]): the name up to its last "_", empty if it
\* has none
SplitJoin(name) ==
    LET i == LastIndex(name, "_") IN IF i = 0 THEN <<>> ELSE Take(name, i - 1)

fraction_file_name(path) == basename(path)
acq_basename(path, ext) == ReSubSuffix(fraction_file_name(path), ext)
mrc_file_name(path, ext) == acq_basename(path, ext) \o S_mrc
dw_file_name(path, ext) == acq_basename(path, ext) \o S_DWmrc
jpeg_file_name(path) == SplitJoin(fraction_file_name(path)) \o S_jpg
jpeg_file_path(path) == dirname(path) \o <<"/">> \o jpeg_file_name(path)
jpeg_file_in(path) == jpeg_file_name(path) \o S_IN
ctf_star_file(path, ext) == Replace(mrc_file_name(path, ext), S_mrc, S_star)
ctf_file(path, ext) == Replace(mrc_file_name(path, ext), S_mrc, S_ctf)
gctf_log_file(path, ext) == Replace(mrc_file_name(path, ext), S_mrc, S_gctflog)
jpg_ctf_file(path, ext) == Replace(mrc_file_name(path, ext), S_mrc, S_ctfjpg)

\* --------------------------------------------------------------------------
\* mutant of Gain_Ref_SR_path: the match pattern takes the "_" before it
Gain_Ref_SR_path_underscore(raw) == Replace(raw, <<"_">> \o S_x1m1dm4, S_SuperRes)

\* Names derived for the gain reference and the defect map (lines 233-267)
Gain_Ref_SR_path(raw) == Replace(raw, S_x1m1dm4, S_SuperRes)
Gain_Ref_path(raw) == Replace(Gain_Ref_SR_path(raw), S_SuperRes, S_std)
FlipY_SR_path(raw) == Replace(Gain_Ref_SR_path(raw), S_SuperRes, S_srflipy)
FlipY_path(raw) == Replace(Gain_Ref_path(raw), S_std, S_stdflipy)
Defect_Map_path(raw) == Replace(raw, S_dm4, S_mrc)

\* --------------------------------------------------------------------------
\* State

VARIABLES
    debug,          \* self.debug
    ext,            \* self.basename_extension
    gainListing,    \* find_files2(inputs_dir, rawgainref)
    defectListing,  \* find_files2(inputs_dir, rawdefectsmap)
    discovered,     \* find_files2(.../Images-Disc1/*/Data, pattern)
    pc,             \* position in submit_workflow
    err,            \* exception that ended the run, "none" if none
    props,          \* self.props["dagman.maxjobs"], "unset" before
    sc,             \* the site catalog has been created
    tc,             \* self.tc: the transformations, in the order added
    rc,             \* self.rc: set of <<lfn, pfn>> replicas
    jobs,           \* self.wf: the job nodes, in the order added
    loc,            \* create_workflow's gain-reference and defect-map names
    file_list,      \* the sampled per-acquisition files
    idx,            \* position of the for loop in file_list
    written,        \* self.write() has run
    planned,        \* self.wf.plan(submit=True, ...) has run
    rerun,          \* this is the second run on the same inputs
    prev            \* result of the first run

inputs == <<debug, ext, gainListing, defectListing, discovered>>
run == <<pc, err, props, sc, tc, rc, jobs, loc, file_list, idx, written, planned>>
vars == <<inputs, run, rerun, prev>>

Range(f) == { f[i] : i \in DOMAIN f }

NoLoc == [Raw_Gain_Ref_SR |-> <<>>, Gain_Ref_SR |-> <<>>, Gain_Ref |-> <<>>,
          FlipY_SR |-> <<>>, FlipY |-> <<>>,
          Raw_Defect_Map |-> <<>>, Defect_Map |-> <<>>]

\* --------------------------------------------------------------------------
\* Pegasus API objects as the source uses them

\* Transformation(name, ...) with an optional clusters.size profile
Transformation(name, clusters) == [name |-> name, clusters |-> clusters]

\* cluster_size, lines 153-156
cluster_size(dbg) == IF dbg THEN ClusterSizeDebug ELSE ClusterSizeProd

\* mutant of Transformations: gctf is created but never added to the catalog
TransformationsNoGctf(dbg) ==
    << Transformation("dm2mrc_gainref", {}),
       Transformation("newstack_gainref", {}),
       Transformation("clip_gainref", {}),
       Transformation("clip_gainref_superres", {}),
       Transformation("dm2mrc_defect_map", {}),
       Transformation("copy_jpeg", {cluster_size(dbg)}),
       Transformation("MotionCor2", {cluster_size(dbg)}),
       Transformation("e2proc2d", {cluster_size(dbg)}) >>

\* the transformations create_transformation_catalog adds, lines 206-214
Transformations(dbg) ==
    << Transformation("dm2mrc_gainref", {}),
       Transformation("newstack_gainref", {}),
       Transformation("clip_gainref", {}),
       Transformation("clip_gainref_superres", {}),
       Transformation("dm2mrc_defect_map", {}),
       Transformation("copy_jpeg", {cluster_size(dbg)}),
       Transformation("MotionCor2", {cluster_size(dbg)}),
       Transformation("gctf", {cluster_size(dbg)}),
       Transformation("e2proc2d", {cluster_size(dbg)}) >>

\* TransformationCatalog.add_transformations refuses a name it already holds
NoDuplicateNames(ts) ==
    \A i, j \in DOMAIN ts : ts[i].name = ts[j].name => i = j

\* an output of a job: File, stage_out, register_replica
Out(lfn, stage_out, register_replica) ==
    [lfn |-> lfn, stage_out |-> stage_out, register_replica |-> register_replica]

\* Job(type).add_args(...).add_inputs(...).add_outputs(...); ins and outs
\* are in the order the source adds them, args keeps the literal flag that
\* depends on the run
Job(type, args, ins, outs) ==
    [type |-> type, args |-> args, inputs |-> Range(ins), outputs |-> Range(outs)]

\* add_inputs / add_outputs raise DuplicateError when the job already uses a
\* file of that lfn
UsesDistinct(ins, outs) ==
    LET lfns == ins \o [i \in DOMAIN outs |-> outs[i].lfn]
    IN  \A i, j \in DOMAIN lfns : lfns[i] = lfns[j] => i = j

OutNames(job) == { o.lfn : o \in job.outputs }

\* mutant of OnError: submit_workflow swallows the exception and goes on to
\* write, as it does for os.mkdir (lines 435-438)
OnErrorSwallowed == "write"

\* what a run does with an exception: nothing in submit_workflow catches
\* one raised by create_workflow (lines 454-464), the run ends
OnError == "aborted"

\* --------------------------------------------------------------------------
\* The job nodes of create_workflow, each as what the source passes to Job,
\* add_args, add_inputs and add_outputs

Uses(type, args, ins, outs) == [type |-> type, args |-> args, ins |-> ins, outs |-> outs]
UsesOK(u) == UsesDistinct(u.ins, u.outs)
MkJob(u) == Job(u.type, u.args, u.ins, u.outs)

\* lines 272-300, in the order the jobs are added (lines 302-306)
FixedUses(l) ==
    << Uses("dm2mrc_gainref", <<>>,
            <<l.Raw_Gain_Ref_SR>>, <<Out(l.Gain_Ref_SR, TRUE, TRUE)>>),
       Uses("newstack_gainref", <<"-bin", "2">>,
            <<l.Gain_Ref_SR>>, <<Out(l.Gain_Ref, TRUE, TRUE)>>),
       Uses("clip_gainref", <<"flipy">>,
            <<l.Gain_Ref>>, <<Out(l.FlipY, TRUE, TRUE)>>),
       Uses("clip_gainref_superres", <<"flipy">>,
            <<l.Gain_Ref_SR>>, <<Out(l.FlipY_SR, TRUE, TRUE)>>),
       Uses("dm2mrc_defect_map", <<>>,
            <<l.Raw_Defect_Map>>, <<Out(l.Defect_Map, TRUE, TRUE)>>) >>

\* lines 353-361
KnownExtension(e) == e \in {E_tiff, E_mrc, E_eer}
mc2_in(e) == IF e = E_tiff THEN "-InTiff" ELSE IF e = E_mrc THEN "-InMrc" ELSE "-InEer"

\* lines 345-347
copy_jpeg_uses(path) ==
    Uses("copy_jpeg", <<"-v", "-L">>,
         <<jpeg_file_in(path)>>, <<Out(jpeg_file_name(path), TRUE, FALSE)>>)

\* mutant of motionCor_uses: the stage_out flags of the two outputs are
\* swapped
motionCor_uses_swapped(path, e, l) ==
    Uses("MotionCor2", <<mc2_in(e)>>,
         <<fraction_file_name(path), l.FlipY>>,
         <<Out(mrc_file_name(path, e), TRUE, FALSE),
           Out(dw_file_name(path, e), FALSE, FALSE)>>)

\* lines 363-370
motionCor_uses(path, e, l) ==
    Uses("MotionCor2", <<mc2_in(e)>>,
         <<fraction_file_name(path), l.FlipY>>,
         <<Out(mrc_file_name(path, e), FALSE, FALSE),
           Out(dw_file_name(path, e), TRUE, FALSE)>>)

\* lines 374-390
gctf_uses(path, e) ==
    Uses("gctf", <<"--ctfstar">>,
         <<mrc_file_name(path, e)>>,
         <<Out(ctf_star_file(path, e), TRUE, TRUE),
           Out(ctf_file(path, e), TRUE, TRUE),
           Out(gctf_log_file(path, e), TRUE, TRUE)>>)

\* lines 393-397
e2proc2d_uses(path, e) ==
    Uses("e2proc2d", <<>>,
         <<ctf_file(path, e)>>, <<Out(jpg_ctf_file(path, e), TRUE, TRUE)>>)

\* mutant of fraction_replica: every file is registered with the path of the
\* first sampled file
fraction_replica_first(fl, i) == <<fraction_file_name(fl[i]), FileUrl(fl[1])>>

\* lines 327 and 344: the replicas registered for the i-th sampled file
fraction_replica(fl, i) == <<fraction_file_name(fl[i]), FileUrl(fl[i])>>
jpeg_replica(fl, i) == <<jpeg_file_in(fl[i]), FileUrl(jpeg_file_path(fl[i]))>>

\* random.sample(file_list, k), lines 316-321: k is 10 or 1000 in the source;
\* raises ValueError when k exceeds the number n of files
sample_size(dbg) == IF dbg THEN DebugSample ELSE ProdSample
\* mutant of SampleCount: the sample is clamped to the files there are
SampleCountClamped(n, k) == IF n < k THEN n ELSE k
SampleCount(n, k) == k
Samples(files, k) ==
    { s \in [1..k -> files] : \A i, j \in 1..k : s[i] = s[j] => i = j }

\* --------------------------------------------------------------------------
\* The graph as the engine receives it: the job nodes (with multiplicity),
\* the transformation catalog and the replica table
BagOfJobs(js) ==
    [n \in Range(js) |-> Cardinality({ i \in DOMAIN js : js[i] = n })]
Structure == [nodes |-> BagOfJobs(jobs), tc |-> Range(tc), rc |-> rc]
NoPrev == [has |-> FALSE, ok |-> FALSE, sample |-> {},
           graph |-> [nodes |-> BagOfJobs(<<>>), tc |-> {}, rc |-> {}]]

\* --------------------------------------------------------------------------
\* Initial state: a PipelineWorkflow after __init__ and set_params, and the
\* files on disk

FreshRun ==
    /\ pc = "properties"
    /\ err = "none"
    /\ props = "unset"
    /\ sc = FALSE
    /\ tc = <<>>
    /\ rc = {}
    /\ jobs = <<>>
    /\ loc = NoLoc
    /\ file_list = <<>>
    /\ idx = 1
    /\ written = FALSE
    /\ planned = FALSE

Init ==
    /\ debug \in BOOLEAN
    /\ ext \in Extensions
    /\ gainListing \in GainRefListings
    /\ defectListing \in DefectMapListings
    /\ discovered \in SUBSET Matching(ext)
    /\ FreshRun
    /\ rerun = FALSE
    /\ prev = NoPrev

\* --------------------------------------------------------------------------
\* submit_workflow, one action per call it makes; create_workflow is split at
\* the places where it can raise

Abort(e) ==
    /\ pc' = OnError
    /\ err' = e

\* lines 49-59
create_pegasus_properties ==
    /\ pc = "properties"
    /\ props' = IF debug THEN "5" ELSE "50"
    /\ pc' = "sites"
    /\ UNCHANGED <<inputs, err, sc, tc, rc, jobs, loc, file_list, idx,
                   written, planned, rerun, prev>>

\* lines 65-100
create_sites_catalog ==
    /\ pc = "sites"
    /\ sc' = TRUE
    /\ pc' = "tc"
    /\ UNCHANGED <<inputs, err, props, tc, rc, jobs, loc, file_list, idx,
                   written, planned, rerun, prev>>

\* lines 103-214
create_transformation_catalog ==
    /\ pc = "tc"
    /\ IF NoDuplicateNames(Transformations(debug))
       THEN /\ tc' = Transformations(debug)
            /\ pc' = "rc"
            /\ err' = err
       ELSE /\ tc' = tc
            /\ Abort("DuplicateError")
    /\ UNCHANGED <<inputs, props, sc, rc, jobs, loc, file_list, idx,
                   written, planned, rerun, prev>>

\* lines 217-218
create_replica_catalog ==
    /\ pc = "rc"
    /\ rc' = {}
    /\ pc' = "gainref"
    /\ UNCHANGED <<inputs, err, props, sc, tc, jobs, loc, file_list, idx,
                   written, planned, rerun, prev>>

\* create_workflow, lines 224-259: the gain-reference names
create_workflow_gainref ==
    /\ pc = "gainref"
    /\ jobs' = <<>>
    /\ IF gainListing = <<>>
       THEN /\ Abort("IndexError")
            /\ UNCHANGED <<loc, rc>>
       ELSE LET raw == gainListing[1] IN
            /\ loc' = [loc EXCEPT
                         !.Raw_Gain_Ref_SR = basename(raw),
                         !.Gain_Ref_SR = basename(Gain_Ref_SR_path(raw)),
                         !.Gain_Ref = basename(Gain_Ref_path(raw)),
                         !.FlipY_SR = basename(FlipY_SR_path(raw)),
                         !.FlipY = basename(FlipY_path(raw))]
            /\ rc' = rc \cup {<<basename(raw), FileUrl(raw)>>}
            /\ pc' = "defectmap"
            /\ err' = err
    /\ UNCHANGED <<inputs, props, sc, tc, file_list, idx,
                   written, planned, rerun, prev>>

\* create_workflow, lines 262-268: the defect-map names
create_workflow_defectmap ==
    /\ pc = "defectmap"
    /\ IF defectListing = <<>>
       THEN /\ Abort("IndexError")
            /\ UNCHANGED <<loc, rc>>
       ELSE LET raw == defectListing[1] IN
            /\ loc' = [loc EXCEPT
                         !.Raw_Defect_Map = basename(raw),
                         !.Defect_Map = basename(Defect_Map_path(raw))]
            /\ rc' = rc \cup {<<basename(raw), FileUrl(raw)>>}
            /\ pc' = "fixedjobs"
            /\ err' = err
    /\ UNCHANGED <<inputs, props, sc, tc, jobs, file_list, idx,
                   written, planned, rerun, prev>>

\* create_workflow, lines 272-306: the five gain-reference and defect-map
\* jobs are built, then added
create_workflow_fixedjobs ==
    /\ pc = "fixedjobs"
    /\ LET us == FixedUses(loc) IN
       IF \A i \in DOMAIN us : UsesOK(us[i])
       THEN /\ jobs' = jobs \o [i \in DOMAIN us |-> MkJob(us[i])]
            /\ pc' = "sample"
            /\ err' = err
       ELSE /\ jobs' = jobs
            /\ Abort("DuplicateError")
    /\ UNCHANGED <<inputs, props, sc, tc, rc, loc, file_list, idx,
                   written, planned, rerun, prev>>

\* create_workflow, lines 313-321: discovery and random.sample
create_workflow_sample ==
    /\ pc = "sample"
    /\ LET n == Cardinality(discovered)
           k == SampleCount(n, sample_size(debug))
       IN  IF k > n
           THEN /\ Abort("ValueError")
                /\ file_list' = file_list
           ELSE /\ file_list' \in Samples(discovered, k)
                /\ pc' = IF k = 0 THEN "write" ELSE "loop"
                /\ err' = err
    /\ idx' = 1
    /\ UNCHANGED <<inputs, props, sc, tc, rc, jobs, loc,
                   written, planned, rerun, prev>>

\* create_workflow, lines 323-400: one iteration of the for loop
create_workflow_file ==
    /\ pc = "loop"
    /\ idx <= Len(file_list)
    /\ LET path == file_list[idx]
           cj == copy_jpeg_uses(path)
           mc == motionCor_uses(path, ext, loc)
           g == gctf_uses(path, ext)
           e == e2proc2d_uses(path, ext)
       IN  /\ rc' = rc \cup {fraction_replica(file_list, idx), jpeg_replica(file_list, idx)}
           /\ IF ~UsesOK(cj)
              THEN /\ jobs' = jobs
                   /\ idx' = idx
                   /\ Abort("DuplicateError")
              ELSE IF ~KnownExtension(ext)
              THEN /\ jobs' = jobs \o <<MkJob(cj)>>
                   /\ idx' = idx
                   /\ Abort("SystemExit")
              ELSE IF ~UsesOK(mc)
              THEN /\ jobs' = jobs \o <<MkJob(cj)>>
                   /\ idx' = idx
                   /\ Abort("DuplicateError")
              ELSE IF ~(UsesOK(g) /\ UsesOK(e))
              THEN /\ jobs' = jobs \o <<MkJob(cj), MkJob(mc)>>
                   /\ idx' = idx
                   /\ Abort("DuplicateError")
              ELSE /\ jobs' = jobs \o <<MkJob(cj), MkJob(mc), MkJob(g), MkJob(e)>>
                   /\ idx' = idx + 1
                   /\ pc' = IF idx = Len(file_list) THEN "write" ELSE "loop"
                   /\ err' = err
    /\ UNCHANGED <<inputs, props, sc, tc, loc, file_list,
                   written, planned, rerun, prev>>

\* line 456, lines 40-46
write ==
    /\ pc = "write"
    /\ written' = TRUE
    /\ pc' = "plan"
    /\ UNCHANGED <<inputs, err, props, sc, tc, rc, jobs, loc, file_list, idx,
                   planned, rerun, prev>>

\* lines 458-464
plan ==
    /\ pc = "plan"
    /\ planned' = TRUE
    /\ pc' = "done"
    /\ UNCHANGED <<inputs, err, props, sc, tc, rc, jobs, loc, file_list, idx,
                   written, rerun, prev>>

\* a second run of submit_workflow on a new PipelineWorkflow, with the same
\* parameters and the same files on disk; the first run's result is kept for
\* comparison
Rerun ==
    /\ pc \in {"done", "aborted"}
    /\ ~rerun
    /\ rerun' = TRUE
    /\ prev' = [has |-> TRUE, ok |-> (pc = "done"), sample |-> Range(file_list),
                graph |-> Structure]
    /\ pc' = "properties"
    /\ err' = "none"
    /\ props' = "unset"
    /\ sc' = FALSE
    /\ tc' = <<>>
    /\ rc' = {}
    /\ jobs' = <<>>
    /\ loc' = NoLoc
    /\ file_list' = <<>>
    /\ idx' = 1
    /\ written' = FALSE
    /\ planned' = FALSE
    /\ UNCHANGED inputs

Next ==
    \/ create_pegasus_properties
    \/ create_sites_catalog
    \/ create_transformation_catalog
    \/ create_replica_catalog
    \/ create_workflow_gainref
    \/ create_workflow_defectmap
    \/ create_workflow_fixedjobs
    \/ create_workflow_sample
    \/ create_workflow_file
    \/ write
    \/ plan
    \/ Rerun

Spec == Init /\ [][Next]_vars

\* --------------------------------------------------------------------------
\* The dependency relation Pegasus infers (infer_dependencies=True, line
\* 224): X -> Y when an output of X is an input of Y

Edge(js, i, j) == OutNames(js[i]) \cap js[j].inputs # {}

Producers(js, a) == { i \in DOMAIN js : a \in OutNames(js[i]) }

UniqueProducers(js) ==
    \A i \in DOMAIN js : \A a \in OutNames(js[i]) : Producers(js, a) = {i}

\* nodes left after repeatedly removing those with no predecessor left
RECURSIVE Peel(_, _)
Peel(js, left) ==
    LET free == { j \in left : \A i \in left : ~Edge(js, i, j) }
    IN  IF free = {} THEN left ELSE Peel(js, left \ free)

Acyclic(js) == Peel(js, DOMAIN js) = {}

\* nodes reachable from the set S by one or more edges
RECURSIVE ReachFrom(_, _, _)
ReachFrom(js, S, seen) ==
    LET next == { j \in DOMAIN js : \E i \in S : Edge(js, i, j) } \ seen
    IN  IF next = {} THEN seen ELSE ReachFrom(js, next, seen \cup next)

Reach(js, i) == ReachFrom(js, {i}, {})

\* create_workflow has returned
Constructed == pc \in {"write", "plan", "done"}

\* position in jobs of the first job of the k-th sampled file
AcqBase(k) == Len(FixedUses(loc)) + 4 * (k - 1)
AcqOf(i) == (i - Len(FixedUses(loc)) - 1) \div 4 + 1

\* --------------------------------------------------------------------------
\* Claims

\* C1: every graph create_workflow produces is acyclic under the edge
\* relation induced by shared artifacts, and every artifact that some job
\* node outputs is output by exactly one job node.
C1_AcyclicUniqueProducers ==
    Constructed => Acyclic(jobs) /\ UniqueProducers(jobs)

\* the eight artifact names derived for one per-acquisition file
DerivedNames(path, e) ==
    { jpeg_file_in(path), jpeg_file_name(path), mrc_file_name(path, e),
      dw_file_name(path, e), ctf_star_file(path, e), ctf_file(path, e),
      gctf_log_file(path, e), jpg_ctf_file(path, e) }

\* C2: two distinct per-acquisition files processed in one construction
\* never share a derived artifact name, and every logical name in the
\* replica table has exactly one physical path.
C2_NamesUnique ==
    Constructed =>
        /\ \A i, j \in DOMAIN file_list :
              file_list[i] # file_list[j] =>
                 DerivedNames(file_list[i], ext) \cap DerivedNames(file_list[j], ext) = {}
        /\ \A r1, r2 \in rc : r1[1] = r2[1] => r1[2] = r2[2]

AcqTypes == <<"copy_jpeg", "MotionCor2", "gctf", "e2proc2d">>

\* C3: with N >= 1 discovered per-acquisition files (and an extension the
\* code knows) construction does not fail for want of files, and the graph
\* it produces holds exactly N per-acquisition subgraphs, one per discovered
\* file, of types copy_jpeg, MotionCor2, gctf, e2proc2d with the edges
\* MotionCor2 -> gctf -> e2proc2d and no edge between two acquisitions.
C3_OnePerDiscovered ==
    (Cardinality(discovered) >= 1 /\ KnownExtension(ext)) =>
        /\ err # "ValueError"
        /\ Constructed =>
             /\ Len(jobs) = Len(FixedUses(loc)) + 4 * Cardinality(discovered)
             /\ Range(file_list) = discovered
             /\ \A k \in DOMAIN file_list :
                   /\ \A t \in 1..4 : jobs[AcqBase(k) + t].type = AcqTypes[t]
                   /\ Edge(jobs, AcqBase(k) + 2, AcqBase(k) + 3)
                   /\ Edge(jobs, AcqBase(k) + 3, AcqBase(k) + 4)
             /\ \A i, j \in DOMAIN jobs :
                   (i > Len(FixedUses(loc)) /\ j > Len(FixedUses(loc))
                      /\ AcqOf(i) # AcqOf(j)) => ~Edge(jobs, i, j)

EmptyDiscovery == gainListing = <<>> \/ defectListing = <<>> \/ discovered = {}

C6_RuleMustMatch ==
    /\ (loc.Raw_Gain_Ref_SR # <<>> /\ ~Contains(gainListing[1], S_x1m1dm4))
          => (pc = "aborted" /\ err = "NamingChainError")
    /\ (loc.Raw_Defect_Map # <<>> /\ ~Contains(defectListing[1], S_dm4))
          => (pc = "aborted" /\ err = "NamingChainError")
    /\ loc.Raw_Gain_Ref_SR # <<>> => loc.Gain_Ref_SR # loc.Raw_Gain_Ref_SR
    /\ loc.Raw_Defect_Map # <<>> => loc.Defect_Map # loc.Raw_Defect_Map

N_foo_raw == <<"f","o","o","_","x","1",".","m","1",".","d","m","4">>
N_foo_SuperRes == <<"f","o","o","_","S","u","p","e","r","R","e","s",".","x","1",".","m","1",".","m","r","c">>
N_foo_std == <<"f","o","o","_","s","t","d",".","x","1",".","m","1",".","m","r","c">>
N_foo__SuperRes == <<"f","o","o","_","_","S","u","p","e","r","R","e","s",".","x","1",".","m","1",".","m","r","c">>
N_foo__std == <<"f","o","o","_","_","s","t","d",".","x","1",".","m","1",".","m","r","c">>

\* C7 as stated: the raw gain-reference name foo_x1.m1.dm4 derives to
\* foo_SuperRes.x1.m1.mrc and that to foo_std.x1.m1.mrc.
C7_FooExample ==
    loc.Raw_Gain_Ref_SR = N_foo_raw =>
        /\ loc.Gain_Ref_SR = N_foo_SuperRes
        /\ loc.Gain_Ref = N_foo_std

\* positions at which old occurs in s
Occurrences(s, old) ==
    { i \in 1..Len(s) : i + Len(old) - 1 <= Len(s) /\ SubSeq(s, i, i + Len(old) - 1) = old }

\* dst is src with its one occurrence of old replaced by new and the rest
\* unchanged (src itself when old does not occur)
RuleApplied(src, old, new, dst) ==
    /\ Occurrences(src, old) = {} => dst = src
    /\ \A i \in Occurrences(src, old) :
          Cardinality(Occurrences(src, old)) = 1 =>
             dst = Take(src, i - 1) \o new \o Drop(src, i - 1 + Len(old))

\* C7 as amended: the raw name foo_x1.m1.dm4 derives to
\* foo__SuperRes.x1.m1.mrc (the "_" before the match stays and the
\* replacement brings its own) and that to foo__std.x1.m1.mrc; every rule of
\* the gain-reference and defect-map chains replaces its match pattern by
\* its replacement and leaves the rest of the name unchanged.
C7_ChainReplaces ==
    loc.Raw_Gain_Ref_SR # <<>> =>
        /\ loc.Raw_Gain_Ref_SR = N_foo_raw =>
              (loc.Gain_Ref_SR = N_foo__SuperRes /\ loc.Gain_Ref = N_foo__std)
        /\ RuleApplied(loc.Raw_Gain_Ref_SR, S_x1m1dm4, S_SuperRes, loc.Gain_Ref_SR)
        /\ RuleApplied(loc.Gain_Ref_SR, S_SuperRes, S_std, loc.Gain_Ref)
        /\ RuleApplied(loc.Gain_Ref_SR, S_SuperRes, S_srflipy, loc.FlipY_SR)
        /\ RuleApplied(loc.Gain_Ref, S_std, S_stdflipy, loc.FlipY)
        /\ loc.Raw_Defect_Map # <<>> =>
              RuleApplied(loc.Raw_Defect_Map, S_dm4, S_mrc, loc.Defect_Map)

C7_Witness ==
    /\ loc.Raw_Gain_Ref_SR = N_foo_raw
    /\ loc.Gain_Ref_SR = N_foo__SuperRes
    /\ loc.Gain_Ref = N_foo__std
    /\ loc.Raw_Defect_Map # <<>>
    /\ loc.Defect_Map # loc.Raw_Defect_Map

\* every sampled file has its four job nodes, after the five fixed ones
CompleteGraph ==
    /\ Len(file_list) = sample_size(debug)
    /\ Len(jobs) = Len(FixedUses(loc)) + 4 * Len(file_list)
    /\ \A i \in DOMAIN FixedUses(loc) : jobs[i].type = FixedUses(loc)[i].type
    /\ \A k \in DOMAIN file_list :
          /\ \A t \in 1..4 : jobs[AcqBase(k) + t].type = AcqTypes[t]
          /\ jobs[AcqBase(k) + 1].inputs = {jpeg_file_in(file_list[k])}
          /\ fraction_file_name(file_list[k]) \in jobs[AcqBase(k) + 2].inputs
          /\ jobs[AcqBase(k) + 3].inputs = {mrc_file_name(file_list[k], ext)}
          /\ jobs[AcqBase(k) + 4].inputs = {ctf_file(file_list[k], ext)}

\* C8: write and plan run only after create_workflow has added every job
\* node of every sampled file without error, plan only after write; a run
\* that aborted has neither written nor planned, whatever it had added.
C8_NoPartialGraph ==
    /\ (written \/ Constructed) => (err = "none" /\ CompleteGraph)
    /\ planned => written
    /\ (pc = "aborted" \/ err # "none") => (~written /\ ~planned /\ ~Constructed)

C8_Witness ==
    /\ pc = "aborted" /\ err = "SystemExit"
    /\ Len(jobs) > Len(FixedUses(loc))
    /\ ~written /\ ~planned

Clustered == { tc[t].name : t \in { u \in DOMAIN tc : tc[u].clusters # {} } }

\* C10: in a produced graph no two job nodes of the same clustered type
\* (copy_jpeg, MotionCor2, gctf, e2proc2d) are connected by a dependency
\* path, so no group of same-type nodes has a dependency within it.
C10_ClusterIndependent ==
    Constructed =>
        \A i, j \in DOMAIN jobs :
            (jobs[i].type = jobs[j].type /\ jobs[i].type \in Clustered)
                => j \notin Reach(jobs, i)

\* logical names that have an entry in the replica table
Registered == { r[1] : r \in rc }

\* C11: in a produced graph every input of every job node is the output of
\* exactly one job node, or is a raw artifact (no producer) with an entry in
\* the replica table; so an order that respects the edges starts each job
\* with all of its inputs available.
C11_InputsAvailable ==
    Constructed =>
        \A j \in DOMAIN jobs : \A a \in jobs[j].inputs :
            \/ Cardinality(Producers(jobs, a)) = 1
            \/ (Producers(jobs, a) = {} /\ a \in Registered)

\* job nodes that take the artifact a as an input
Consumers(js, a) == { j \in DOMAIN js : a \in js[j].inputs }

\* C12: in a produced graph every output that no job node consumes has
\* stage_out set; an output without stage_out is the <basename>.mrc of a
\* MotionCor2 node and is an input of the gctf node of the same acquisition;
\* no output has register_replica set without stage_out.
C12_UnconsumedPersist ==
    Constructed =>
        \A i \in DOMAIN jobs : \A o \in jobs[i].outputs :
            /\ Consumers(jobs, o.lfn) = {} => o.stage_out
            /\ ~o.stage_out =>
                  /\ jobs[i].type = "MotionCor2"
                  /\ i = AcqBase(AcqOf(i)) + 2
                  /\ o.lfn = mrc_file_name(file_list[AcqOf(i)], ext)
                  /\ jobs[AcqBase(AcqOf(i)) + 3].type = "gctf"
                  /\ AcqBase(AcqOf(i)) + 3 \in Consumers(jobs, o.lfn)
            /\ o.register_replica => o.stage_out

C12_Witness ==
    /\ pc = "done"
    /\ \E i \in DOMAIN jobs : \E o \in jobs[i].outputs :
          /\ ~o.stage_out
          /\ Consumers(jobs, o.lfn) # {}
    /\ \E i \in DOMAIN jobs : \E o \in jobs[i].outputs :
          /\ Consumers(jobs, o.lfn) = {}
          /\ o.stage_out /\ ~o.register_replica
    /\ \E i \in DOMAIN jobs : \E o \in jobs[i].outputs :
          o.register_replica /\ o.stage_out

====
